---- MODULE Spec2Model ----
(***************************************************************************)
(* tools/convert_old_latents_to_sdxl_multi_res.py                          *)
(*                                                                         *)
(* A file name is a sequence of one-character strings, so that the regular *)
(* expression, the sort order and the output-name formatting are computed  *)
(* character by character.  A directory is a function from file names to   *)
(* .npz containers; a container is a function from keys to arrays; an      *)
(* array is a record of its shape and (a fingerprint of) its data.         *)
(*                                                                         *)
(* The directory scan glob("*.npz") is taken to yield the names that end   *)
(* in ".npz"; names that begin with "." do not occur in the modelled       *)
(* directories.                                                            *)
(***************************************************************************)
EXTENDS Integers, Sequences, FiniteSets, TLC

VARIABLES
    fs,             \* the file system: directory name -> (file name -> container)
    args,           \* argparse.Namespace of the current invocation: src, dst, overwrite, dry_run
    run,            \* number of the current invocation of main
    pc,             \* position in main: "start", "loop", "decide", "done", "failed"
    error,          \* the exception that ended the invocation, "" if none
    groups,         \* main's groups: base -> list of source paths
    i,              \* index of the current base in sorted(groups.keys()); 0 before the loop
    merged,         \* main's merged (result of convert_group for the current base)
    original_size,  \* main's original_size (result of convert_group for the current base)
    written,        \* main's counter
    skipped,        \* main's counter
    log,            \* the [skip]/[plan]/[ok] lines printed by this invocation
    fs0,            \* history: the file system when this invocation started
    prev            \* history: what the previous invocation did

vars == <<fs, args, run, pc, error, groups, i, merged, original_size,
          written, skipped, log, fs0, prev>>

----------------------------------------------------------------------------
(* Bounds of the model *)

MaxRuns == 2

MaxNameLen == 5

----------------------------------------------------------------------------
(* Characters and strings *)

DigitChars == {"0", "1", "2", "3", "4", "5", "6", "7", "8", "9"}

DigitSeq == <<"0", "1", "2", "3", "4", "5", "6", "7", "8", "9">>

\* Code point of a character (Python compares str by code point).
Ord(c) ==
    CASE c = "\n" -> 10
      [] c = "."  -> 46
      [] c \in DigitChars -> 48 + (CHOOSE d \in 0..9 : DigitSeq[d + 1] = c)
      [] c = "A"  -> 65
      [] c = "_"  -> 95
      [] c = "a"  -> 97
      [] c = "b"  -> 98
      [] c = "d"  -> 100
      [] c = "l"  -> 108
      [] c = "n"  -> 110
      [] c = "o"  -> 111
      [] c = "p"  -> 112
      [] c = "s"  -> 115
      [] c = "t"  -> 116
      [] c = "x"  -> 120
      [] c = "z"  -> 122

\* s < t for Python str.
StrLess(s, t) ==
    \E k \in 1..Len(t) :
        /\ \A j \in 1..(k - 1) : j <= Len(s) /\ s[j] = t[j]
        /\ \/ k = Len(s) + 1
           \/ k <= Len(s) /\ Ord(s[k]) < Ord(t[k])

\* sorted(S) for a set S of str.
RECURSIVE Sorted(_)
Sorted(S) ==
    IF S = {} THEN <<>>
    ELSE LET m == CHOOSE x \in S : \A y \in S \ {x} : StrLess(x, y)
         IN  <<m>> \o Sorted(S \ {m})

SeqRange(s) == {s[k] : k \in 1..Len(s)}

EndsWith(s, suffix) ==
    /\ Len(s) >= Len(suffix)
    /\ SubSeq(s, Len(s) - Len(suffix) + 1, Len(s)) = suffix

Ext == <<".", "n", "p", "z">>

\* A single \d where the expression has \d+.
DigitRunOne(s, e) == IF e >= 1 /\ s[e] \in DigitChars THEN 1 ELSE 0

\* Number of consecutive \d characters of s that end at position e.
RECURSIVE DigitRun(_, _)
DigitRun(s, e) ==
    IF e >= 1 /\ s[e] \in DigitChars THEN 1 + DigitRun(s, e - 1) ELSE 0

\* SOURCE_NAME_RE.match(name): r"^(?P<base>.*)_(?P<w>\d+)x(?P<h>\d+)\.npz$".
\* The match is found from the right: <h> is the run of digits before the
\* extension, <w> the run of digits before the "x", and "." matches every
\* character but a line break.  (A name that ends in ".npz\n" is not yielded by
\* the directory scan.)
Match(name) ==
    LET n    == Len(name) - Len(Ext)
        hLen == DigitRun(name, n)
        xPos == n - hLen
        wLen == DigitRun(name, xPos - 1)
        uPos == xPos - 1 - wLen
        NoMatch == [ok |-> FALSE, base |-> <<>>]
    IN  IF ~EndsWith(name, Ext) THEN NoMatch
        ELSE IF hLen = 0 \/ xPos < 1 THEN NoMatch
        ELSE IF name[xPos] # "x" THEN NoMatch
        ELSE IF wLen = 0 \/ uPos < 1 THEN NoMatch
        ELSE IF name[uPos] # "_" THEN NoMatch
        ELSE IF \E k \in 1..(uPos - 1) : name[k] = "\n" THEN NoMatch
        ELSE [ok |-> TRUE, base |-> SubSeq(name, 1, uPos - 1)]

\* Decimal digits of a natural number.
RECURSIVE DigitsOf(_)
DigitsOf(n) ==
    IF n < 10 THEN <<DigitSeq[n + 1]>>
    ELSE DigitsOf(n \div 10) \o <<DigitSeq[(n % 10) + 1]>>

\* f"{n:04}" for a natural number n.
RECURSIVE PadLeft(_, _)
PadLeft(s, width) == IF Len(s) >= width THEN s ELSE PadLeft(<<"0">> \o s, width)

Pad04(n) == PadLeft(DigitsOf(n), 4)

\* out_name = f"{base}_{original_size[0]:04}x{original_size[1]:04}_sdxl.npz"
OutName(base, size) ==
    base \o <<"_">> \o Pad04(size[1]) \o <<"x">> \o Pad04(size[2])
         \o <<"_", "s", "d", "x", "l">> \o Ext

----------------------------------------------------------------------------
(* Containers *)

Arr(shape, data) == [shape |-> shape, data |-> data]

EmptyDict == [k \in {} |-> Arr(<<>>, <<>>)]

EmptyDir == [n \in {} |-> EmptyDict]

MERGED_KEY_BASES ==
    <<"latents", "original_size", "crop_ltrb", "latents_flipped", "alpha_mask">>

RequiredKeys == {"latents", "original_size", "crop_ltrb"}

\* Python's None for original_size; a value v is held as <<v>>.
None == <<>>

Failure(e) == [err |-> e, merged |-> EmptyDict, original_size |-> <<>>]

----------------------------------------------------------------------------
(* collect_groups *)

\* A scan that also descends into the other directories.
GlobEverywhere(f, d) == {n \in UNION {DOMAIN f[e] : e \in DOMAIN f} : EndsWith(n, Ext)}

\* glob.glob(os.path.join(d, "*.npz")): the names of directory d that end in .npz.
Glob(f, d) == {n \in DOMAIN f[d] : EndsWith(n, Ext)}

\* groups[base] = [src_path] where the code appends.
AppendToReplace(g, base, path) == (base :> <<path>>) @@ g

\* groups[m.group("base")].append(src_path) on a defaultdict(list)
AppendTo(g, base, path) ==
    IF base \in DOMAIN g THEN [g EXCEPT ![base] = Append(@, path)]
    ELSE g @@ (base :> <<path>>)

\* The loop of collect_groups over the paths in the order the scan yields them.
RECURSIVE CollectFrom(_, _, _)
CollectFrom(paths, k, g) ==
    IF k > Len(paths) THEN [err |-> "", groups |-> g]
    ELSE LET m == Match(paths[k])
         IN  IF ~m.ok THEN [err |-> "format", groups |-> g]
             ELSE CollectFrom(paths, k + 1, AppendTo(g, m.base, paths[k]))

collect_groups(paths) == CollectFrom(paths, 1, [b \in {} |-> <<>>])

\* The orders in which the scan may yield a set of paths.
ScanOrders(S) ==
    {s \in [1..Cardinality(S) -> S] : \A a, b \in 1..Cardinality(S) : s[a] = s[b] => a = b}

----------------------------------------------------------------------------
(* convert_group *)

\* The first file's size is adopted and later files are not compared.
CheckSizeFirstWins(size, this) ==
    IF size = None THEN [err |-> "", size |-> <<this>>] ELSE [err |-> "", size |-> size]

\* original_size is None / original_size != this_original_size
CheckSize(size, this) ==
    IF size = None THEN [err |-> "", size |-> <<this>>]
    ELSE IF size[1] # this THEN [err |-> "inconsistent", size |-> size]
    ELSE [err |-> "", size |-> size]

\* latents_shape[0], latents_shape[1] where the code has [-2], [-1].
SuffixLeading(shape) == "_" \o ToString(shape[1]) \o "x" \o ToString(shape[2])

\* suffix = f"_{lat_h}x{lat_w}" with lat_h, lat_w = latents_shape[-2], latents_shape[-1]
Suffix(shape) ==
    "_" \o ToString(shape[Len(shape) - 1]) \o "x" \o ToString(shape[Len(shape)])

\* merged[merged_key] = npz[key_base] without the membership test.
InsertOverwrite(m, merged_key, arr) ==
    [err |-> "", merged |-> (merged_key :> arr) @@ m]

\* if merged_key in merged: raise ...; merged[merged_key] = npz[key_base]
Insert(m, merged_key, arr) ==
    IF merged_key \in DOMAIN m THEN [err |-> "duplicate", merged |-> m]
    ELSE [err |-> "", merged |-> m @@ (merged_key :> arr)]

\* for key_base in MERGED_KEY_BASES
RECURSIVE MergeKeys(_, _, _, _)
MergeKeys(npz, suffix, k, m) ==
    IF k > Len(MERGED_KEY_BASES) THEN [err |-> "", merged |-> m]
    ELSE LET key_base == MERGED_KEY_BASES[k]
         IN  IF key_base \notin DOMAIN npz THEN MergeKeys(npz, suffix, k + 1, m)
             ELSE LET r == Insert(m, key_base \o suffix, npz[key_base])
                  IN  IF r.err # "" THEN r
                      ELSE MergeKeys(npz, suffix, k + 1, r.merged)

\* for path in sorted(paths), then the check after the loop
RECURSIVE ConvertFrom(_, _, _, _, _)
ConvertFrom(dir, paths, k, m, size) ==
    IF k > Len(paths) THEN
        IF size = None THEN Failure("empty")
        ELSE [err |-> "", merged |-> m, original_size |-> size[1]]
    ELSE
        LET npz == dir[paths[k]]
        IN  IF ~(RequiredKeys \subseteq DOMAIN npz) THEN Failure("missing")
            ELSE
              LET chk == CheckSize(size, npz["original_size"].data)
                  latents_shape == npz["latents"].shape
              IN  IF chk.err # "" THEN Failure(chk.err)
                  ELSE IF Len(latents_shape) < 2 THEN Failure("shape")
                  ELSE
                    LET r == MergeKeys(npz, Suffix(latents_shape), 1, m)
                    IN  IF r.err # "" THEN Failure(r.err)
                        ELSE ConvertFrom(dir, paths, k + 1, r.merged, chk.size)

convert_group(dir, paths) ==
    ConvertFrom(dir, Sorted(SeqRange(paths)), 1, EmptyDict, None)

----------------------------------------------------------------------------
(* The file system and the writer's primitives *)

\* The files of directory d, none if d does not exist.
Files(f, d) == IF d \in DOMAIN f THEN f[d] ELSE EmptyDir

\* os.makedirs(dst_dir, exist_ok=True)
MakeDirs(f, d) == IF d \in DOMAIN f THEN f ELSE f @@ (d :> EmptyDir)

\* os.path.exists(out_name): the bare name, which is in no directory.
ExistsBareName(f, d, name) == FALSE

\* os.path.exists(out_path)
Exists(f, d, name) == name \in DOMAIN f[d]

\* np.savez(out_path, **merged): creates or truncates the file.
Savez(f, d, name, m) == [f EXCEPT ![d] = (name :> m) @@ @]

\* The dry-run test placed before the existence test.
OutcomePlanFirst(exists, overwrite, dry_run) ==
    IF dry_run THEN "plan"
    ELSE IF exists /\ ~overwrite THEN "skip"
    ELSE "ok"

\* --overwrite taking precedence over --dry-run for an existing file.
OutcomeOverwriteFirst(exists, overwrite, dry_run) ==
    IF exists /\ ~overwrite THEN "skip"
    ELSE IF exists /\ overwrite THEN "ok"
    ELSE IF dry_run THEN "plan"
    ELSE "ok"

\* The writer's decision for one group (lines 118-130): "skip", "plan" or "ok".
Outcome(exists, overwrite, dry_run) ==
    IF exists /\ ~overwrite THEN "skip"
    ELSE IF dry_run THEN "plan"
    ELSE "ok"

----------------------------------------------------------------------------
(* The directories the invocations start from *)

Alphabet == {"\n", "1", "_", "a", "x"}

SizeA == <<1024, 1536>>

SizeB == <<768, 12345>>

\* The contents of a source file, by kind; tag tells the files' data apart.
\*   1: valid, latents (32, 48)             2: valid, latents (4, 64, 96), optional keys
\*   3: as 2 but another original_size      4: crop_ltrb missing
\*   5: one-dimensional latents
Container(kind, tag) ==
    LET shape == CASE kind = 1 -> <<32, 48>>
                   [] kind = 2 -> <<4, 64, 96>>
                   [] kind = 3 -> <<4, 64, 96>>
                   [] kind = 4 -> <<4, 32, 48>>
                   [] kind = 5 -> <<48>>
        size  == IF kind = 3 THEN SizeB ELSE SizeA
        keys  == CASE kind = 2 -> RequiredKeys \cup {"latents_flipped", "alpha_mask", "caption"}
                   [] kind = 4 -> {"latents", "original_size"}
                   [] OTHER    -> RequiredKeys
    IN  [k \in keys |->
            CASE k = "latents"         -> Arr(shape, <<tag, 0>>)
              [] k = "original_size"   -> Arr(<<Len(size)>>, size)
              [] k = "crop_ltrb"       -> Arr(<<4>>, <<tag, 1>>)
              [] k = "latents_flipped" -> Arr(shape, <<tag, 2>>)
              [] k = "alpha_mask"      -> Arr(<<256, 384>>, <<tag, 3>>)
              [] OTHER                 -> Arr(<<>>, <<tag, 4>>)]

Kinds == 1..5

NameA1 == <<"a", "_", "1", "x", "1">> \o Ext

NameA2 == <<"a", "_", "2", "x", "2">> \o Ext

NameUp == <<"A", "_", "1", "x", "1">> \o Ext

NameBad == <<"a", "b">> \o Ext

NameTxt == <<"a", "_", "1", "x", "1", ".", "t", "x", "t">>

File(name, kind) ==
    name :> Container(kind,
                      CASE name = NameA1 -> 1 [] name = NameA2 -> 2
                        [] name = NameUp -> 3 [] OTHER -> 4)

\* Source directories: the files of base "a" (none, one or two, of any kinds), the
\* file of base "A" (none, a valid one or one with one-dimensional latents), a
\* file that is no .npz file, and in a few of them a badly named .npz file (whose
\* contents are never read).
PoolDirs ==
    LET aFiles == {EmptyDir}
                    \cup {File(n, k) : n \in {NameA1, NameA2}, k \in Kinds}
                    \cup {File(NameA1, k1) @@ File(NameA2, k2) : k1 \in Kinds, k2 \in Kinds}
        bFiles == {EmptyDir, File(NameUp, 1), File(NameUp, 5)}
        other  == NameTxt :> EmptyDict
    IN  {a @@ b @@ other : a \in aFiles, b \in bFiles}
          \cup {a @@ b @@ other @@ File(NameBad, 1) :
                  a \in {EmptyDir, File(NameA1, 1)}, b \in {EmptyDir, File(NameUp, 1)}}

\* Source directories with one .npz file of an arbitrary name of at most
\* MaxNameLen characters before the extension, beside a well-named one.
ProbeDirs ==
    {File(stem \o Ext, 2) @@ File(NameA2, 1) :
        stem \in UNION {[1..len -> Alphabet] : len \in 1..MaxNameLen}}

\* A file left in the destination directory by something else.
Foreign == ("latents_8x8" :> Arr(<<4, 8, 8>>, <<9, 0>>))

NoRun ==
    [args |-> [src |-> "", dst |-> "", overwrite |-> FALSE, dry_run |-> FALSE],
     pc |-> "none", error |-> "", log |-> <<>>, written |-> 0, skipped |-> 0,
     fs0 |-> [d \in {} |-> EmptyDir], fs1 |-> [d \in {} |-> EmptyDir]]

Fresh ==
    /\ pc = "start"
    /\ error = ""
    /\ groups = [b \in {} |-> <<>>]
    /\ i = 0
    /\ merged = EmptyDict
    /\ original_size = <<>>
    /\ written = 0
    /\ skipped = 0
    /\ log = <<>>
    /\ fs0 = fs

\* --src in, --dst in or out, any flags; out absent or holding a foreign file
\* under the output name of base "a"; or no source directory at all.
Init ==
    /\ run = 1
    /\ prev = NoRun
    /\ \E ow \in BOOLEAN, dry \in BOOLEAN :
         \/ \E dir \in PoolDirs :
              \/ /\ fs = ("in" :> dir)
                 /\ \E d \in {"in", "out"} :
                      args = [src |-> "in", dst |-> d, overwrite |-> ow, dry_run |-> dry]
              \/ /\ fs = ("in" :> dir) @@ ("out" :> (OutName(<<"a">>, SizeA) :> Foreign))
                 /\ args = [src |-> "in", dst |-> "out", overwrite |-> ow, dry_run |-> dry]
         \/ /\ fs = ("out" :> EmptyDir)
            /\ args = [src |-> "in", dst |-> "out", overwrite |-> ow, dry_run |-> dry]
    /\ Fresh

\* One invocation on a directory with an arbitrarily named .npz file: --src in,
\* --dst out, any flags; out holds a foreign file under the output name of the
\* empty base.
InitScan ==
    /\ run = 1
    /\ prev = NoRun
    /\ \E ow \in BOOLEAN, dry \in BOOLEAN :
         /\ args = [src |-> "in", dst |-> "out", overwrite |-> ow, dry_run |-> dry]
         /\ \/ \E dir \in ProbeDirs :
                 fs = ("in" :> dir) @@ ("out" :> (OutName(<<>>, SizeA) :> Foreign))
            \/ fs = ("out" :> EmptyDir)
    /\ Fresh

----------------------------------------------------------------------------
(* main *)

\* sorted(groups.keys(), reverse=True)
RECURSIVE Reverse(_)
Reverse(q) == IF q = <<>> THEN <<>> ELSE Reverse(Tail(q)) \o <<Head(q)>>

BasesDescending == Reverse(Sorted(DOMAIN groups))

\* sorted(groups.keys())
Bases == Sorted(DOMAIN groups)

\* if not os.path.isdir(src_dir): raise FileNotFoundError
BeginNotFound ==
    /\ pc = "start"
    /\ args.src \notin DOMAIN fs
    /\ pc' = "failed"
    /\ error' = "notfound"
    /\ UNCHANGED <<fs, args, run, groups, i, merged, original_size, written, skipped,
                   log, fs0, prev>>

\* os.makedirs(dst_dir); groups = collect_groups(src_dir); if not groups: return
Begin ==
    /\ pc = "start"
    /\ args.src \in DOMAIN fs
    /\ LET made == MakeDirs(fs, args.dst)
       IN  \E scan \in ScanOrders(Glob(made, args.src)) :
             \E r \in {collect_groups(scan)} :
                 /\ fs' = made
                 /\ error' = r.err
                 /\ groups' = IF r.err = "" THEN r.groups ELSE groups
                 /\ pc' = IF r.err # "" THEN "failed"
                          ELSE IF DOMAIN r.groups = {} THEN "done"
                          ELSE "loop"
                 /\ i' = IF r.err = "" /\ DOMAIN r.groups # {} THEN 1 ELSE 0
    /\ UNCHANGED <<args, run, merged, original_size, written, skipped, log, fs0, prev>>

\* merged, original_size = convert_group(base, groups[base])
ConvertGroup ==
    /\ pc = "loop"
    /\ \E r \in {convert_group(fs[args.src], groups[Bases[i]])} :
           IF r.err # ""
           THEN /\ pc' = "failed"
                /\ error' = r.err
                /\ UNCHANGED <<merged, original_size>>
           ELSE /\ pc' = "decide"
                /\ merged' = r.merged
                /\ original_size' = r.original_size
                /\ UNCHANGED error
    /\ UNCHANGED <<fs, args, run, groups, i, written, skipped, log, fs0, prev>>

out_name == OutName(Bases[i], original_size)

Decision == Outcome(Exists(fs, args.dst, out_name), args.overwrite, args.dry_run)

\* The print of the outcome, and on to the next base or to the summary.
Printed(tag) ==
    /\ log' = Append(log, [tag |-> tag, base |-> Bases[i], path |-> out_name])
    /\ i' = i + 1
    /\ pc' = IF i + 1 > Len(Bases) THEN "done" ELSE "loop"

Skip ==
    /\ pc = "decide"
    /\ Decision = "skip"
    /\ skipped' = skipped + 1
    /\ Printed("skip")
    /\ UNCHANGED <<fs, args, run, error, groups, merged, original_size, written, fs0, prev>>

Plan ==
    /\ pc = "decide"
    /\ Decision = "plan"
    /\ written' = written + 1
    /\ Printed("plan")
    /\ UNCHANGED <<fs, args, run, error, groups, merged, original_size, skipped, fs0, prev>>

Write ==
    /\ pc = "decide"
    /\ Decision = "ok"
    /\ fs' = Savez(fs, args.dst, out_name, merged)
    /\ written' = written + 1
    /\ Printed("ok")
    /\ UNCHANGED <<args, run, error, groups, merged, original_size, skipped, fs0, prev>>

\* The tool is invoked again, on the same directories, with any flags.
NextRun ==
    /\ pc \in {"done", "failed"}
    /\ run < MaxRuns
    /\ run' = run + 1
    /\ prev' = [args |-> args, pc |-> pc, error |-> error, log |-> log,
                written |-> written, skipped |-> skipped, fs0 |-> fs0, fs1 |-> fs]
    /\ \E ow \in BOOLEAN, dry \in BOOLEAN :
         args' = [args EXCEPT !.overwrite = ow, !.dry_run = dry]
    /\ pc' = "start"
    /\ error' = ""
    /\ groups' = [b \in {} |-> <<>>]
    /\ i' = 0
    /\ merged' = EmptyDict
    /\ original_size' = <<>>
    /\ written' = 0
    /\ skipped' = 0
    /\ log' = <<>>
    /\ fs0' = fs
    /\ UNCHANGED fs

Next == BeginNotFound \/ Begin \/ ConvertGroup \/ Skip \/ Plan \/ Write \/ NextRun

Spec == Init /\ [][Next]_vars

NextScan == BeginNotFound \/ Begin \/ ConvertGroup \/ Skip \/ Plan \/ Write

SpecScan == InitScan /\ [][NextScan]_vars

----------------------------------------------------------------------------
(* Vocabulary of the properties *)

\* name is <base>_<w>x<h>.npz with the "_" at position u and <w>, <h> non-empty
\* strings of decimal digits.
FormAt(name, u) ==
    /\ EndsWith(name, Ext)
    /\ u >= 1
    /\ u <= Len(name) - Len(Ext)
    /\ name[u] = "_"
    /\ \E x \in (u + 2)..(Len(name) - Len(Ext) - 1) :
         /\ name[x] = "x"
         /\ \A k \in (u + 1)..(x - 1) : name[k] \in DigitChars
         /\ \A k \in (x + 1)..(Len(name) - Len(Ext)) : name[k] \in DigitChars

\* <base> any string without a line break, the empty string included.
WellFormed(name) ==
    \E u \in 1..Len(name) : FormAt(name, u) /\ \A k \in 1..(u - 1) : name[k] # "\n"

\* <base> a non-empty string.
WellFormedNonEmptyBase(name) == \E u \in 2..Len(name) : FormAt(name, u)

SameBase(f, g) ==
    \E u \in 1..Len(f) :
        FormAt(f, u) /\ FormAt(g, u) /\ SubSeq(f, 1, u - 1) = SubSeq(g, 1, u - 1)

BaseOfName(name) == SubSeq(name, 1, (CHOOSE u \in 1..Len(name) : FormAt(name, u)) - 1)

\* The .npz files of the source directory when the invocation started.
Listing ==
    IF args.src \in DOMAIN fs0 THEN {n \in DOMAIN fs0[args.src] : EndsWith(n, Ext)} ELSE {}

\* collect_groups has run / has returned the groups.
Scanned == pc # "start" /\ error # "notfound"

Collected == Scanned /\ error # "format"

Ended == pc \in {"done", "failed"}

\* convert_group has just returned or raised for the group of Bases[i].
Converted == pc = "decide" \/ (pc = "failed" /\ i >= 1)

NoFlags(a) == ~a.overwrite /\ ~a.dry_run

OnlyOverwrite(a) == a.overwrite /\ ~a.dry_run

LogPaths(l, tag) == {l[k].path : k \in {j \in 1..Len(l) : l[j].tag = tag}}

LogBases(l) == {l[k].base : k \in 1..Len(l)}

\* The files of the destination directory that differ from what they were when
\* the invocation started.
Touched ==
    {o \in DOMAIN Files(fs, args.dst) :
        \/ o \notin DOMAIN Files(fs0, args.dst)
        \/ Files(fs0, args.dst)[o] # Files(fs, args.dst)[o]}

LastTwo(shape) == <<shape[Len(shape) - 1], shape[Len(shape)]>>

\* The files of a group pass every check of convert_group but, possibly, the
\* duplicate-key check.
CleanFiles(F) ==
    /\ \A f \in F : /\ {"latents", "original_size", "crop_ltrb"} \subseteq DOMAIN fs0[args.src][f]
                    /\ Len(fs0[args.src][f]["latents"].shape) >= 2
    /\ \A f, g \in F :
         fs0[args.src][f]["original_size"].data = fs0[args.src][g]["original_size"].data

ValidFiles(F) ==
    /\ CleanFiles(F)
    /\ \A f, g \in F :
         f # g => LastTwo(fs0[args.src][f]["latents"].shape)
                    # LastTwo(fs0[args.src][g]["latents"].shape)

SameShapes(F) ==
    \E f, g \in F :
        /\ f # g
        /\ "latents" \in DOMAIN fs0[args.src][f]
        /\ "latents" \in DOMAIN fs0[args.src][g]
        /\ fs0[args.src][f]["latents"].shape = fs0[args.src][g]["latents"].shape

----------------------------------------------------------------------------
(* C1 *)

\* C1 as stated: an invocation without --overwrite and without --dry-run that
\* follows a completed one with the same flags, whatever the destination
\* directory, changes no file of the destination, does not fail, writes nothing and
\* skips every group, among them every output the first invocation wrote.
SkipOnRerunAnyDst ==
    (run > 1 /\ prev.pc = "done" /\ NoFlags(prev.args) /\ NoFlags(args)) =>
        /\ Files(fs, args.dst) = Files(prev.fs1, args.dst)
        /\ pc # "failed"
        /\ written = 0
        /\ pc = "done" => /\ skipped = Cardinality(DOMAIN groups)
                          /\ LogPaths(prev.log, "ok") \subseteq LogPaths(log, "skip")

\* C1, amended: the same when the destination directory is not the source
\* directory.
SkipOnRerun ==
    (run > 1 /\ prev.pc = "done" /\ NoFlags(prev.args) /\ NoFlags(args)
       /\ args.src # args.dst) =>
        /\ Files(fs, args.dst) = Files(prev.fs1, args.dst)
        /\ pc # "failed"
        /\ written = 0
        /\ pc = "done" => /\ skipped = Cardinality(DOMAIN groups)
                          /\ LogPaths(prev.log, "ok") \subseteq LogPaths(log, "skip")

\* A second invocation has skipped the two outputs the first one wrote.
SkipOnRerunWitness ==
    /\ run > 1 /\ pc = "done" /\ NoFlags(prev.args) /\ NoFlags(args)
    /\ args.src # args.dst
    /\ prev.written = 2
    /\ skipped = 2
    /\ Cardinality(LogPaths(prev.log, "ok")) = 2

----------------------------------------------------------------------------
(* C2 *)

\* C2: an invocation without --dry-run that starts from the source and
\* destination state a --dry-run invocation started from, with the same
\* --overwrite, ends as that one did, writes the files that one planned, skips
\* the files that one skipped, and counts the same.
DryRunAgrees ==
    (Ended /\ run > 1 /\ prev.args.dry_run /\ ~args.dry_run
       /\ prev.args.overwrite = args.overwrite
       /\ Files(prev.fs0, args.src) = Files(fs0, args.src)
       /\ Files(prev.fs0, args.dst) = Files(fs0, args.dst)) =>
        /\ prev.pc = pc
        /\ prev.error = error
        /\ prev.written = written
        /\ prev.skipped = skipped
        /\ LogPaths(prev.log, "plan") = LogPaths(log, "ok")
        /\ LogPaths(prev.log, "skip") = LogPaths(log, "skip")
        /\ LogPaths(prev.log, "ok") = {}
        /\ LogPaths(log, "plan") = {}
        /\ Cardinality(LogPaths(log, "ok")) = written

\* A dry run planned one file and skipped another, and the run after it wrote
\* the one and skipped the other.
DryRunAgreesWitness ==
    /\ run > 1 /\ pc = "done" /\ prev.args.dry_run /\ ~args.dry_run
    /\ ~args.overwrite /\ ~prev.args.overwrite
    /\ prev.written = 1 /\ prev.skipped = 1
    /\ written = 1 /\ skipped = 1

----------------------------------------------------------------------------
(* C3 *)

\* C3: every step that decides a group prints exactly one outcome, which is
\* "skip" iff the path exists and --overwrite is off, else "plan" iff --dry-run is
\* on, else "ok"; the files of the destination directory change only in a step
\* whose outcome is "ok", and then only the file at the printed path, which becomes
\* the merged mapping; with --dry-run they never change.
DecisionTable ==
    [][ LET before == Files(fs, args.dst)
            after  == Files(fs', args.dst)
            last   == log'[Len(log')]
        IN  /\ pc = "decide" => Len(log') = Len(log) + 1
            /\ Len(log') = Len(log) + 1 =>
                 /\ pc = "decide"
                 /\ SubSeq(log', 1, Len(log)) = log
                 /\ last.tag \in {"skip", "plan", "ok"}
                 /\ last.tag = "skip" <=> (last.path \in DOMAIN before /\ ~args.overwrite)
                 /\ last.tag = "plan" <=>
                      (args.dry_run /\ (last.path \notin DOMAIN before \/ args.overwrite))
                 /\ last.tag = "ok" =>
                      /\ DOMAIN after = DOMAIN before \cup {last.path}
                      /\ after[last.path] = merged
                      /\ \A o \in DOMAIN before \ {last.path} : after[o] = before[o]
            /\ after # before => Len(log') = Len(log) + 1 /\ last.tag = "ok"
            /\ args.dry_run => after = before
      ]_vars

\* With --dry-run and --overwrite, a group whose output file exists was planned,
\* and the file is as it was.
DecisionTableWitness ==
    /\ args.dry_run /\ args.overwrite
    /\ \E k \in 1..Len(log) :
         /\ log[k].tag = "plan"
         /\ log[k].path \in DOMAIN Files(fs0, args.dst)
         /\ Files(fs, args.dst)[log[k].path] = Foreign

----------------------------------------------------------------------------
(* C4 *)

\* C4: with --overwrite (and no --dry-run) twice, the destination directory not
\* being the source directory, the second invocation ends as the first did, with
\* the same error if any, and leaves every file of the destination with the keys
\* and values it had after the first.
OverwriteIdempotent ==
    (Ended /\ run > 1 /\ OnlyOverwrite(prev.args) /\ OnlyOverwrite(args)
       /\ args.src # args.dst) =>
        /\ prev.pc = pc
        /\ prev.error = error
        /\ prev.written = written
        /\ Files(fs, args.dst) = Files(prev.fs1, args.dst)

\* Two invocations with --overwrite have each written two files, one of them over
\* a file that was there before.
OverwriteIdempotentWitness ==
    /\ run > 1 /\ pc = "done" /\ OnlyOverwrite(prev.args) /\ OnlyOverwrite(args)
    /\ args.src # args.dst
    /\ written = 2 /\ prev.written = 2
    /\ \E o \in DOMAIN Files(prev.fs0, args.dst) : prev.fs0[args.dst][o] = Foreign

----------------------------------------------------------------------------
(* C5 *)

\* C5: when convert_group has returned for a group, the keys of merged are
\* exactly the names <key_base>_<H>x<W> for the files f of the group, the five
\* key bases present in f and (H, W) the last two dimensions of f's latents; each
\* such key holds the array f stores under key_base; and original_size is the
\* original_size of every file of the group.
MergeCorrect ==
    pc = "decide" =>
        LET F == SeqRange(groups[Bases[i]])
            five == {"latents", "original_size", "crop_ltrb", "latents_flipped", "alpha_mask"}
            npz(f) == fs[args.src][f]
            dims(f) == LastTwo(npz(f)["latents"].shape)
            key(f, kb) == kb \o "_" \o ToString(dims(f)[1]) \o "x" \o ToString(dims(f)[2])
        IN  /\ DOMAIN merged = {key(f, kb) : <<f, kb>> \in {q \in F \X five : q[2] \in DOMAIN npz(q[1])}}
            /\ \A f \in F : \A kb \in five \cap DOMAIN npz(f) : merged[key(f, kb)] = npz(f)[kb]
            /\ \A f \in F : original_size = npz(f)["original_size"].data

\* Two files of one base, latents of (32, 48) and (4, 64, 96), the second with
\* the optional keys, have been merged.
MergeCorrectWitness ==
    /\ pc = "decide"
    /\ Len(groups[Bases[i]]) = 2
    /\ original_size = SizeA
    /\ {"latents_32x48", "crop_ltrb_32x48", "original_size_64x96", "latents_flipped_64x96",
        "alpha_mask_64x96"} \subseteq DOMAIN merged
    /\ Cardinality(DOMAIN merged) = 8

----------------------------------------------------------------------------
(* C6 *)

----------------------------------------------------------------------------
(* C7 *)

----------------------------------------------------------------------------
(* C8 *)

----------------------------------------------------------------------------
(* C9 *)

----------------------------------------------------------------------------
(* C10 *)

\* C10: the bases with a printed outcome are printed once each in ascending
\* order, are valid groups, and are all the bases below the latest of them;
\* written + skipped counts them; a failed invocation has printed the outcomes of
\* exactly the bases below an invalid group, whether or not that group's output
\* file exists; a completed one has printed an outcome for every group.
ValidationBeforeDecision ==
    Collected =>
        /\ written + skipped = Len(log)
        /\ \A j, k \in 1..Len(log) : j < k => StrLess(log[j].base, log[k].base)
        /\ \A b \in LogBases(log) :
             /\ b \in DOMAIN groups
             /\ ValidFiles(SeqRange(groups[b]))
             /\ \A c \in DOMAIN groups : StrLess(c, b) => c \in LogBases(log)
        /\ pc = "decide" => ValidFiles(SeqRange(groups[Bases[i]]))
        /\ pc = "failed" =>
             \E b \in DOMAIN groups :
                 /\ ~ValidFiles(SeqRange(groups[b]))
                 /\ LogBases(log) = {c \in DOMAIN groups : StrLess(c, b)}
        /\ pc = "done" =>
             /\ LogBases(log) = DOMAIN groups
             /\ written + skipped = Cardinality(DOMAIN groups)

\* An invalid group whose output file exists and would be skipped has aborted
\* the invocation after the outcome of an earlier group was printed.
ValidationBeforeDecisionWitness ==
    /\ pc = "failed"
    /\ i = 2
    /\ Len(log) = 1
    /\ ~args.overwrite
    /\ OutName(<<"a">>, SizeA) \in DOMAIN Files(fs, args.dst)
    /\ Bases[i] = <<"a">>

====
